---------------------------- MODULE Spec2Model ----------------------------
(***************************************************************************)
(* Model of src/src/movesense/movesense_sensor.py: the sensor-kind and     *)
(* sampling-rate catalogs, the MovesenseSensor constructor with its        *)
(* process-wide id counter and subscription path, from_path, and the       *)
(* notification_handler that turns a flat buffer into timestamped samples. *)
(*                                                                         *)
(* Python values are records [py |-> <type>, v |-> <payload>]; text is a   *)
(* sequence of character codes (so that the two binary prefix characters   *)
(* of a path and its text live in one sequence); real numbers are exact    *)
(* fractions [num, den] in lowest terms.                                   *)
(***************************************************************************)
EXTENDS Integers, Sequences, FiniteSets, TLC

VARIABLES id_counter, sensors, ret, clock, issued, packets, pc, frame, stores

vars == <<id_counter, sensors, ret, clock, issued, packets, pc, frame, stores>>

(***************************************************************************)
(* Bounds of the model.                                                    *)
(***************************************************************************)
MaxSuffixLen == 1       \* characters appended to a tag prefix in a lookup input
MaxCounter == 258       \* cap of id_counter in the id specification
MaxSamples == 3         \* samples held by all logs together
MaxClock == 2           \* last wall-clock reading, in grid steps
ClockGrid == 13         \* wall-clock readings are multiples of 1/ClockGrid s
MaxThreads == 2         \* constructing threads
MaxCallsPerThread == 2  \* constructions per thread

(***************************************************************************)
(* Text helpers.                                                           *)
(***************************************************************************)
Slash == 47
Digit0 == 48

\* str.startswith
StartsWith(s, p) == Len(p) <= Len(s) /\ SubSeq(s, 1, Len(p)) = p

RECURSIVE IntToStr(_)
\* str(n) of a non-negative int, as in the f-string of the path
IntToStr(n) ==
    IF n < 10 THEN <<Digit0 + n>>
    ELSE Append(IntToStr(n \div 10), Digit0 + (n % 10))

IsDigit(c) == c >= Digit0 /\ c <= Digit0 + 9

RECURSIVE DigitsValue(_)
DigitsValue(s) ==
    IF s = <<>> THEN 0
    ELSE 10 * DigitsValue(SubSeq(s, 1, Len(s) - 1)) + (s[Len(s)] - Digit0)

\* int(s) of a str without whitespace, sign or underscore: the decimal value,
\* or ValueError when s is empty or holds a character that is no digit
int(s) ==
    IF s # <<>> /\ \A i \in 1..Len(s) : IsDigit(s[i])
    THEN [ok |-> TRUE, v |-> DigitsValue(s)]
    ELSE [ok |-> FALSE, err |-> "ValueError"]

RECURSIVE SplitFrom(_, _, _)
\* str.split(sep) with a one-character separator: the segments of s from
\* position i on, cur being the segment under construction
SplitFrom(s, i, cur) ==
    IF i > Len(s) THEN <<cur>>
    ELSE IF s[i] = Slash THEN <<cur>> \o SplitFrom(s, i + 1, <<>>)
    ELSE SplitFrom(s, i + 1, Append(cur, s[i]))

split(s) == SplitFrom(s, 1, <<>>)

(***************************************************************************)
(* MovesenseSensorType: members in definition order, value and axes.       *)
(***************************************************************************)
SensorTypeMembers ==
    << [name |-> "ACCELEROMETER", value |-> <<65, 99, 99>>,       axes |-> 3],   \* 'Acc'
       [name |-> "GYROSCOPE",     value |-> <<71, 121, 114, 111>>, axes |-> 3],  \* 'Gyro'
       [name |-> "MAGNETOMETER",  value |-> <<77, 97, 103, 110>>,  axes |-> 3],  \* 'Magn'
       [name |-> "TEMPERATURE",   value |-> <<84, 101, 109, 112>>, axes |-> 1],  \* 'Temp'
       [name |-> "ECG",           value |-> <<69, 67, 71>>,        axes |-> 1],  \* 'ECG'
       [name |-> "HEART_RATE",    value |-> <<72, 82>>,            axes |-> 1],  \* 'HR'
       [name |-> "IMU6",          value |-> <<73, 77, 85, 54>>,    axes |-> 6],  \* 'IMU6'
       [name |-> "IMU9",          value |-> <<73, 77, 85, 57>>,    axes |-> 9] >> \* 'IMU9'

SensorTypeNames == {SensorTypeMembers[i].name : i \in DOMAIN SensorTypeMembers}

SensorTypeOf(name) ==
    SensorTypeMembers[CHOOSE i \in DOMAIN SensorTypeMembers :
                          SensorTypeMembers[i].name = name]

IMU == <<73, 77, 85>>   \* the literal "IMU" of from_string

(***************************************************************************)
(* MovesenseSamplingRate: members in definition order.                     *)
(***************************************************************************)
SamplingRateMembers ==
    << [name |-> "_13_HZ", value |-> 13],     [name |-> "_26_HZ", value |-> 26],
       [name |-> "_52_HZ", value |-> 52],     [name |-> "_104_HZ", value |-> 104],
       [name |-> "_208_HZ", value |-> 208],   [name |-> "_416_HZ", value |-> 416],
       [name |-> "_833_HZ", value |-> 833],   [name |-> "_1666_HZ", value |-> 1666],
       [name |-> "_125_HZ", value |-> 125],   [name |-> "_128_HZ", value |-> 128],
       [name |-> "_200_HZ", value |-> 200],   [name |-> "_250_HZ", value |-> 250],
       [name |-> "_256_HZ", value |-> 256],   [name |-> "_500_HZ", value |-> 500],
       [name |-> "_512_HZ", value |-> 512] >>

SamplingRateNames == {SamplingRateMembers[i].name : i \in DOMAIN SamplingRateMembers}

SamplingRateOf(name) ==
    SamplingRateMembers[CHOOSE i \in DOMAIN SamplingRateMembers :
                            SamplingRateMembers[i].name = name]

(***************************************************************************)
(* Python values handed to the constructor: a str or bytearray (s), an     *)
(* int (n), a member of one of the two enums or one of the two enum        *)
(* classes themselves (name).                                              *)
(***************************************************************************)
PyStr(s) == [py |-> "str", s |-> s, n |-> 0, name |-> ""]
PyInt(n) == [py |-> "int", s |-> <<>>, n |-> n, name |-> ""]
PyBytes(b) == [py |-> "bytearray", s |-> b, n |-> 0, name |-> ""]
PySensorType(name) == [py |-> "MovesenseSensorType", s |-> <<>>, n |-> 0, name |-> name]
PySamplingRate(name) == [py |-> "MovesenseSamplingRate", s |-> <<>>, n |-> 0, name |-> name]
ClassSensorType == [py |-> "type", s |-> <<>>, n |-> 0, name |-> "MovesenseSensorType"]
ClassSamplingRate == [py |-> "type", s |-> <<>>, n |-> 0, name |-> "MovesenseSamplingRate"]

Ok(v) == [ok |-> TRUE, v |-> v]
Raise(e) == [ok |-> FALSE, err |-> e]

(***************************************************************************)
(* MovesenseSensorType.from_string                                         *)
(***************************************************************************)
RECURSIVE FromStringScan(_, _)
\* the loop of from_string from member i on.  For a value that is no str,
\* member.value == value is False and value.startswith raises
\* AttributeError in the first iteration.
FromStringScan(value, i) ==
    IF i > Len(SensorTypeMembers) THEN Raise("ValueError")
    ELSE IF value.py # "str" THEN Raise("AttributeError")
    ELSE IF SensorTypeMembers[i].value = value.s THEN Ok(SensorTypeMembers[i].name)
    ELSE IF StartsWith(value.s, SensorTypeMembers[i].value) THEN Ok(SensorTypeMembers[i].name)
    ELSE IF value.s = IMU THEN Ok("IMU9")
    ELSE FromStringScan(value, i + 1)

\* from_string with the startswith branch lost: equality and the alias only
from_string_equal_only(value) ==
    IF value.py # "str" THEN Raise("AttributeError")
    ELSE IF \E n \in SensorTypeNames : SensorTypeOf(n).value = value.s
         THEN Ok(CHOOSE n \in SensorTypeNames : SensorTypeOf(n).value = value.s)
    ELSE IF value.s = IMU THEN Ok("IMU9")
    ELSE Raise("ValueError")

from_string(value) == FromStringScan(value, 1)

(***************************************************************************)
(* MovesenseSamplingRate.from_int                                          *)
(***************************************************************************)
RECURSIVE FromIntScan(_, _)
\* member.value == value holds only for an int of the same value
FromIntScan(value, i) ==
    IF i > Len(SamplingRateMembers) THEN Raise("ValueError")
    ELSE IF value.py = "int" /\ SamplingRateMembers[i].value = value.n
         THEN Ok(SamplingRateMembers[i].name)
    ELSE FromIntScan(value, i + 1)

from_int(value) == FromIntScan(value, 1)

(***************************************************************************)
(* MovesenseSensor.__init__                                                *)
(***************************************************************************)
\* line 74-75: the value itself when it is the class object
\* MovesenseSensorType (the only value the identity test accepts), else
\* from_string of it
ResolveSensorType(sensor_type) ==
    IF sensor_type.py = "type" /\ sensor_type.name = "MovesenseSensorType"
    THEN Ok("MovesenseSensorType")
    ELSE from_string(sensor_type)

\* line 76-77, the same for the rate
ResolveSamplingRate(sampling_rate) ==
    IF sampling_rate.py = "type" /\ sampling_rate.name = "MovesenseSamplingRate"
    THEN Ok("MovesenseSamplingRate")
    ELSE from_int(sampling_rate)

\* "/Meas/<sensor_type.value>/<sampling_rate.value>" encoded as utf-8 (ASCII)
PathText(st, sr) ==
    <<Slash, 77, 101, 97, 115, Slash>> \o SensorTypeOf(st).value
        \o <<Slash>> \o IntToStr(SamplingRateOf(sr).value)

\* BuildPath with the id byte wrapped instead of refused
BuildPathWrapping(id, st, sr) ==
    IF st \notin SensorTypeNames \/ sr \notin SamplingRateNames
    THEN Raise("AttributeError")
    ELSE Ok(<<1, id % 256>> \o PathText(st, sr))

\* line 83-84: bytearray([1, id]) raises ValueError for an id outside
\* range(256); .value of a class object raises AttributeError
BuildPath(id, st, sr) ==
    IF id < 0 \/ id > 255 THEN Raise("ValueError")
    ELSE IF st \notin SensorTypeNames \/ sr \notin SamplingRateNames
         THEN Raise("AttributeError")
    ELSE Ok(<<1, id>> \o PathText(st, sr))

\* TakeId with the increment of line 80 lost
TakeIdNoIncrement(counter) == [id |-> counter, counter |-> counter]

\* line 79-80 run without interruption: the id taken and the counter after it
TakeId(counter) == [id |-> counter, counter |-> counter + 1]

\* the whole constructor run on its own from counter value `counter`:
\* [ok, err, counter, sensor]
Construct(sensor_type, sampling_rate, counter) ==
    LET st == ResolveSensorType(sensor_type) IN
    IF ~st.ok THEN [ok |-> FALSE, err |-> st.err, counter |-> counter]
    ELSE LET sr == ResolveSamplingRate(sampling_rate) IN
    IF ~sr.ok THEN [ok |-> FALSE, err |-> sr.err, counter |-> counter]
    ELSE LET t == TakeId(counter)
             path == BuildPath(t.id, st.v, sr.v) IN
    IF ~path.ok THEN [ok |-> FALSE, err |-> path.err, counter |-> t.counter]
    ELSE [ok |-> TRUE, err |-> "", counter |-> t.counter,
          sensor |-> [id |-> t.id, sensor_type |-> st.v, sampling_rate |-> sr.v,
                      path |-> path.v, data |-> <<>>]]

(***************************************************************************)
(* MovesenseSensor.from_path                                               *)
(***************************************************************************)
\* line 90-91 up to the constructor call: the constructor's two arguments,
\* or the error of split (a bytearray cannot be split on a str), of the
\* four-name unpacking, or of int()
ParsePath(path) ==
    IF path.py # "str" THEN Raise("TypeError")
    ELSE LET parts == split(path.s) IN
    IF Len(parts) # 4 THEN Raise("ValueError")
    ELSE LET n == int(parts[4]) IN
    IF ~n.ok THEN Raise(n.err)
    ELSE Ok([sensor_type |-> PyStr(parts[3]), sampling_rate |-> PyInt(n.v)])

from_path(path, counter) ==
    LET a == ParsePath(path) IN
    IF ~a.ok THEN [ok |-> FALSE, err |-> a.err, counter |-> counter]
    ELSE Construct(a.v.sensor_type, a.v.sampling_rate, counter)

\* the two texts a caller can make of a sensor's path: the text after the
\* two-byte prefix, and the text with the two prefix characters kept
TextOfPath(path) == SubSeq(path, 3, Len(path))
PrefixedTextOfPath(path) == path

(***************************************************************************)
(* Exact fractions, for timestamps.                                        *)
(***************************************************************************)
Abs(x) == IF x < 0 THEN -x ELSE x

RECURSIVE Gcd(_, _)
Gcd(a, b) == IF b = 0 THEN a ELSE Gcd(b, a % b)

\* num/den in lowest terms, den > 0
Frac(num, den) ==
    LET s == IF den < 0 THEN -1 ELSE 1
        g == Gcd(Abs(num), Abs(den)) IN
    [num |-> (s * num) \div g, den |-> (s * den) \div g]

FAdd(a, b) == Frac(a.num * b.den + b.num * a.den, a.den * b.den)
FSub(a, b) == Frac(a.num * b.den - b.num * a.den, a.den * b.den)
FMul(a, b) == Frac(a.num * b.num, a.den * b.den)
FDiv(a, b) == Frac(a.num * b.den, a.den * b.num)
FInt(n) == Frac(n, 1)
FLeq(a, b) == a.num * b.den <= b.num * a.den

(***************************************************************************)
(* MovesenseSensor.notification_handler                                    *)
(***************************************************************************)
\* reshape that drops the values behind the last whole row instead of failing
reshape_truncating(data, axes) ==
    Ok([r \in 1..(Len(data) \div axes) |->
           SubSeq(data, (r - 1) * axes + 1, r * axes)])

\* np.array(data).reshape(-1, axes): the rows, or ValueError when the size
\* is no multiple of axes
reshape(data, axes) ==
    IF Len(data) % axes # 0 THEN Raise("ValueError")
    ELSE Ok([r \in 1..(Len(data) \div axes) |->
                SubSeq(data, (r - 1) * axes + 1, r * axes)])

\* np.linspace(start, stop, num), endpoint included: with div = num - 1 > 0
\* the values start + i*(stop - start)/div, the last one set to stop; for
\* num = 1 the single value start; for num = 0 nothing
linspace(start, stop, num) ==
    LET div == num - 1
        delta == FSub(stop, start) IN
    [i \in 1..num |->
        IF num > 1 /\ i = num THEN stop
        ELSE IF div > 0 THEN FAdd(FMul(FInt(i - 1), FDiv(delta, FInt(div))), start)
        ELSE FAdd(FMul(FInt(i - 1), delta), start)]

\* the sampling period taken to be the rate itself
SamplingPeriodAsRate(sr) == FInt(SamplingRateOf(sr).value)

\* line 102: the sampling period
SamplingPeriod(sr) == FDiv(FInt(1), FInt(SamplingRateOf(sr).value))

\* line 105: the timestamps of the rows of a packet of n rows that arrived
\* at `now`
Timestamps(sr, n, now) ==
    LET T_s == SamplingPeriod(sr)
        offs == linspace(FSub(FInt(0), FMul(T_s, FInt(n))), FInt(0), n) IN
    [i \in 1..n |-> FAdd(offs[i], now)]

\* line 109-116: the samples of the rows, in row order
Samples(sensor, device_address, rows, stamps) ==
    [i \in 1..Len(rows) |->
        [timestamp |-> stamps[i], device |-> device_address,
         sensor_type |-> SensorTypeOf(sensor.sensor_type).value,
         sensor_data |-> rows[i]]]

\* the handler putting the new samples in front of the log
notification_handler_prepending(sensor, device_address, data, now) ==
    LET rows == reshape(data, SensorTypeOf(sensor.sensor_type).axes) IN
    IF ~rows.ok THEN Raise(rows.err)
    ELSE Ok(Samples(sensor, device_address, rows.v,
                    Timestamps(sensor.sampling_rate, Len(rows.v), now)) \o sensor.data)

\* the handler on one sensor: the sensor's data list after the call, or the
\* error of the reshape (raised before anything is appended)
notification_handler(sensor, device_address, data, now) ==
    LET rows == reshape(data, SensorTypeOf(sensor.sensor_type).axes) IN
    IF ~rows.ok THEN Raise(rows.err)
    ELSE Ok(sensor.data \o Samples(sensor, device_address, rows.v,
                                   Timestamps(sensor.sampling_rate, Len(rows.v), now)))

(***************************************************************************)
(* State.                                                                  *)
(*   id_counter  MovesenseSensor.id_counter                                *)
(*   sensors     the sensors constructed so far, in construction order     *)
(*   ret         the last call: its arguments and how it ended             *)
(*   clock       the last reading of the wall clock, in grid steps         *)
(*   issued      history: the ids of the sensors constructed, in order     *)
(*   packets     history: per sensor, arrival time and row count of each   *)
(*               buffer that added rows to its log                         *)
(*   pc, frame   per thread, the position inside __init__ and its locals   *)
(*   stores      history: the number of completed `id_counter += 1`        *)
(***************************************************************************)
Threads == 1..MaxThreads

NoFrame == [sensor_type |-> "", sampling_rate |-> "", id |-> -1, loaded |-> -1, calls |-> 0]

Init ==
    /\ id_counter = 0
    /\ sensors = <<>>
    /\ ret = [op |-> "none"]
    /\ clock = 0
    /\ issued = <<>>
    /\ packets = <<>>
    /\ pc = [t \in Threads |-> "idle"]
    /\ frame = [t \in Threads |-> NoFrame]
    /\ stores = 0

\* what a finished constructor call leaves behind
Constructed(r, call) ==
    /\ id_counter' = r.counter
    /\ sensors' = IF r.ok THEN Append(sensors, r.sensor) ELSE sensors
    /\ issued' = IF r.ok THEN Append(issued, r.sensor.id) ELSE issued
    /\ packets' = IF r.ok THEN Append(packets, <<>>) ELSE packets
    /\ ret' = call @@ [ok |-> r.ok, err |-> r.err]
    /\ UNCHANGED <<clock, pc, frame, stores>>

\* MovesenseSensor(sensor_type, sampling_rate), run without interruption
NewSensor(sensor_type, sampling_rate) ==
    Constructed(Construct(sensor_type, sampling_rate, id_counter),
                [op |-> "init", sensor_type |-> sensor_type,
                 sampling_rate |-> sampling_rate])

\* MovesenseSensor.from_path(path); src is the sensor whose path was handed
\* in (0: none), form the way the caller handed it in
NewFromPath(path, src, form) ==
    Constructed(from_path(path, id_counter),
                [op |-> "from_path", path |-> path, src |-> src, form |-> form])

TotalSamples ==
    LET RECURSIVE Sum(_)
        Sum(i) == IF i = 0 THEN 0 ELSE Len(sensors[i].data) + Sum(i - 1)
    IN Sum(Len(sensors))

\* the wall-clock reading k grid steps after the epoch of the model
ClockReading(k) == Frac(k, ClockGrid)

\* await sensors[i].notification_handler(device_address, data), the clock
\* reading `now` grid steps when the handler starts
Notify(i, device_address, data, now) ==
    LET r == notification_handler(sensors[i], device_address, data, ClockReading(now)) IN
    /\ now >= clock
    /\ r.ok => TotalSamples + (Len(r.v) - Len(sensors[i].data)) <= MaxSamples
    /\ clock' = now
    /\ sensors' = IF r.ok THEN [sensors EXCEPT ![i].data = r.v] ELSE sensors
    /\ packets' = IF r.ok /\ Len(r.v) > Len(sensors[i].data)
                  THEN [packets EXCEPT ![i] = Append(@, [arrival |-> now,
                            rows |-> Len(r.v) - Len(sensors[i].data)])]
                  ELSE packets
    /\ ret' = [op |-> "notification_handler", sensor |-> i,
               device_address |-> device_address, data |-> data, now |-> now,
               ok |-> r.ok, err |-> IF r.ok THEN "" ELSE r.err]
    /\ UNCHANGED <<id_counter, issued, pc, frame, stores>>

(***************************************************************************)
(* __init__ on several threads: the statements of one call run in order,   *)
(* the statements of different calls interleave.  Line 80 is a read of     *)
(* id_counter followed by a write of the value read plus one.              *)
(***************************************************************************)
\* line 74-77
ThreadResolve(t, sensor_type, sampling_rate) ==
    LET st == ResolveSensorType(sensor_type)
        sr == ResolveSamplingRate(sampling_rate)
        call == [op |-> "init", sensor_type |-> sensor_type,
                 sampling_rate |-> sampling_rate, thread |-> t] IN
    /\ pc[t] = "idle"
    /\ frame[t].calls < MaxCallsPerThread
    /\ IF st.ok /\ sr.ok
       THEN /\ pc' = [pc EXCEPT ![t] = "line79"]
            /\ frame' = [frame EXCEPT ![t].sensor_type = st.v,
                                      ![t].sampling_rate = sr.v]
            /\ ret' = ret
       ELSE /\ pc' = pc
            /\ frame' = [frame EXCEPT ![t].calls = @ + 1]
            /\ ret' = call @@ [ok |-> FALSE, err |-> IF st.ok THEN sr.err ELSE st.err]
    /\ UNCHANGED <<id_counter, sensors, clock, issued, packets, stores>>

\* line 79: self.id = MovesenseSensor.id_counter
ThreadAssignId(t) ==
    /\ pc[t] = "line79"
    /\ frame' = [frame EXCEPT ![t].id = id_counter]
    /\ pc' = [pc EXCEPT ![t] = "line80_load"]
    /\ UNCHANGED <<id_counter, sensors, ret, clock, issued, packets, stores>>

\* line 80, the read of MovesenseSensor.id_counter
ThreadLoadCounter(t) ==
    /\ pc[t] = "line80_load"
    /\ frame' = [frame EXCEPT ![t].loaded = id_counter]
    /\ pc' = [pc EXCEPT ![t] = "line80_store"]
    /\ UNCHANGED <<id_counter, sensors, ret, clock, issued, packets, stores>>

\* line 80, the write of the value read plus one
ThreadStoreCounter(t) ==
    /\ pc[t] = "line80_store"
    /\ id_counter' = frame[t].loaded + 1
    /\ stores' = stores + 1
    /\ pc' = [pc EXCEPT ![t] = "line83"]
    /\ UNCHANGED <<sensors, ret, clock, issued, packets, frame>>

\* line 83-86 and the return of the new sensor
ThreadFinish(t) ==
    LET path == BuildPath(frame[t].id, frame[t].sensor_type, frame[t].sampling_rate)
        sensor == [id |-> frame[t].id, sensor_type |-> frame[t].sensor_type,
                   sampling_rate |-> frame[t].sampling_rate,
                   path |-> path.v, data |-> <<>>] IN
    /\ pc[t] = "line83"
    /\ sensors' = IF path.ok THEN Append(sensors, sensor) ELSE sensors
    /\ issued' = IF path.ok THEN Append(issued, frame[t].id) ELSE issued
    /\ packets' = IF path.ok THEN Append(packets, <<>>) ELSE packets
    /\ ret' = [op |-> "init", thread |-> t, ok |-> path.ok,
               err |-> IF path.ok THEN "" ELSE path.err]
    /\ pc' = [pc EXCEPT ![t] = "idle"]
    /\ frame' = [frame EXCEPT ![t] = [NoFrame EXCEPT !.calls = frame[t].calls + 1]]
    /\ UNCHANGED <<id_counter, clock, stores>>

(***************************************************************************)
(* Inputs.                                                                 *)
(***************************************************************************)
Acc == <<65, 99, 99>>
Temp == <<84, 101, 109, 112>>
Gyro == <<71, 121, 114, 111>>
Meas == <<77, 101, 97, 115>>

\* the characters appended to tag prefixes: '6' and 'x'
SuffixAlphabet == {54, 120}

RECURSIVE SeqsUpTo(_, _)
SeqsUpTo(S, n) ==
    IF n = 0 THEN {<<>>}
    ELSE LET shorter == SeqsUpTo(S, n - 1) IN
         shorter \cup {Append(q, c) : q \in shorter, c \in S}

TagPrefixes ==
    UNION {{SubSeq(SensorTypeMembers[i].value, 1, k) :
                k \in 0..Len(SensorTypeMembers[i].value)} :
           i \in DOMAIN SensorTypeMembers}

\* every prefix of every wire tag (the tags, "IMU" and "" among them),
\* followed by up to MaxSuffixLen more characters
TagInputs == {p \o q : p \in TagPrefixes, q \in SeqsUpTo(SuffixAlphabet, MaxSuffixLen)}

CatalogTypeInputs ==
    {PyStr(t) : t \in TagInputs}
        \cup {PySensorType(n) : n \in SensorTypeNames}
        \cup {ClassSensorType, PyInt(3)}

CatalogRateInputs ==
    {PyInt(SamplingRateMembers[i].value) : i \in DOMAIN SamplingRateMembers}
        \cup {PyInt(999), PyInt(0), PyStr(<<49, 51>>)}
        \cup {PySamplingRate("_13_HZ"), PySamplingRate("_512_HZ"), ClassSamplingRate}

\* texts that are no path of any sensor: an unknown rate, three segments
\* (no leading slash, no rate), five segments, a rate that is no number,
\* an unknown tag, the empty text
MalformedPaths ==
    { <<Slash>> \o Meas \o <<Slash>> \o Gyro \o <<Slash, 57, 57, 57>>,
      Meas \o <<Slash>> \o Gyro \o <<Slash, 50, 48, 56>>,
      <<Slash>> \o Meas \o <<Slash>> \o Gyro,
      <<Slash>> \o Meas \o <<Slash>> \o Gyro \o <<Slash, 50, 48, 56, Slash>>,
      <<Slash>> \o Meas \o <<Slash>> \o Gyro \o <<Slash, 50, 120, 56>>,
      <<Slash>> \o Meas \o <<Slash, 120>> \o <<Slash, 50, 48, 56>>,
      <<>> }

\* the ways a caller hands a sensor's path to from_path
PathForms == {"text", "prefixed", "bytearray"}

PathInput(sensor, form) ==
    IF form = "text" THEN PyStr(TextOfPath(sensor.path))
    ELSE IF form = "prefixed" THEN PyStr(PrefixedTextOfPath(sensor.path))
    ELSE PyBytes(sensor.path)

RECURSIVE Ramp(_)
\* the buffer 1.0, 2.0, ..., n
Ramp(n) == IF n = 0 THEN <<>> ELSE Append(Ramp(n - 1), n)

\* every length a log can take in, and one more
Buffers == {Ramp(n) : n \in 0..(MaxSamples + 1)}

Devices == {"AA:01"}

(***************************************************************************)
(* Catalog specification: the first constructor call of a process, over    *)
(* all the inputs above.                                                   *)
(***************************************************************************)
CatalogNew ==
    /\ ret.op = "none"
    /\ \E st \in CatalogTypeInputs, sr \in CatalogRateInputs : NewSensor(st, sr)

CatalogFromPath ==
    /\ ret.op = "none"
    /\ \/ \E st \in SensorTypeNames, sr \in SamplingRateNames :
              NewFromPath(PyStr(PathText(st, sr)), 0, "text")
       \/ \E p \in MalformedPaths : NewFromPath(PyStr(p), 0, "literal")

NextCatalog == CatalogNew \/ CatalogFromPath

SpecCatalog == Init /\ [][NextCatalog]_vars

(***************************************************************************)
(* Id specification: constructor calls one after the other, until the      *)
(* counter has passed the last id that fits one byte.                      *)
(***************************************************************************)
IdsNew ==
    /\ id_counter < MaxCounter
    /\ \E st \in {PyStr(Acc), PyStr(<<120>>), PySensorType("ACCELEROMETER")},
          sr \in {PyInt(13), PyInt(999)} : NewSensor(st, sr)

IdsFromPath ==
    /\ id_counter < MaxCounter
    /\ \/ /\ sensors # <<>>
          /\ \E form \in PathForms :
                NewFromPath(PathInput(sensors[Len(sensors)], form), Len(sensors), form)
       \/ \E p \in MalformedPaths : NewFromPath(PyStr(p), 0, "literal")

NextIds == IdsNew \/ IdsFromPath

SpecIds == Init /\ [][NextIds]_vars

(***************************************************************************)
(* Decode specification: the sensors of one device and the notifications   *)
(* delivered to them one at a time, the wall clock never running           *)
(* backwards.                                                              *)
(***************************************************************************)
\* one subscription per sensor kind: a three-axis and a one-axis sensor
DecodeNew ==
    \E st \in {Acc, Temp} :
        /\ \A i \in DOMAIN sensors : SensorTypeOf(sensors[i].sensor_type).value # st
        /\ NewSensor(PyStr(st), PyInt(13))

DecodeNotify ==
    \E i \in DOMAIN sensors, d \in Devices, data \in Buffers, now \in clock..MaxClock :
        Notify(i, d, data, now)

NextDecode == DecodeNew \/ DecodeNotify

Spec == Init /\ [][NextDecode]_vars

(***************************************************************************)
(* Thread specification: constructor calls on several threads.             *)
(***************************************************************************)
NextThreads ==
    \E t \in Threads :
        \/ \E st \in {PyStr(Acc), PyStr(<<120>>)} : ThreadResolve(t, st, PyInt(13))
        \/ ThreadAssignId(t)
        \/ ThreadLoadCounter(t)
        \/ ThreadStoreCounter(t)
        \/ ThreadFinish(t)

SpecThreads == Init /\ [][NextThreads]_vars

(***************************************************************************)
(* Properties.                                                             *)
(***************************************************************************)
Last(q) == q[Len(q)]

AxesOf(sensor) == SensorTypeOf(sensor.sensor_type).axes

IsHandlerCall(r) == r.op = "notification_handler"

IsConstructorCall(r) == r.op = "init" \/ r.op = "from_path"

\* the timestamps of a log never go back
NonDecreasing(data) ==
    \A k \in 1..(Len(data) - 1) : FLeq(data[k].timestamp, data[k + 1].timestamp)

\* C1: a handler call that took in n >= 1 rows at arrival time t gave row i
\* (0-indexed) the timestamp t - T*(n-1-i), T = 1/rate: the last row has t
\* and neighbours are T apart.
C1_TimestampsEndAtArrival ==
    (IsHandlerCall(ret) /\ ret.ok /\ Len(ret.data) > 0) =>
        LET sensor == sensors[ret.sensor]
            n == Len(ret.data) \div AxesOf(sensor)
            base == Len(sensor.data) - n
            T == Frac(1, SamplingRateOf(sensor.sampling_rate).value) IN
        \A i \in 0..(n - 1) :
            sensor.data[base + i + 1].timestamp
                = FSub(ClockReading(ret.now), FMul(T, FInt(n - 1 - i)))

\* C2: a handler call whose buffer length is no multiple of the sensor's axis
\* count fails, and leaves every log as it was.
C2_MalformedBufferAppendsNothing ==
    [][(IsHandlerCall(ret') /\ Len(ret'.data) % AxesOf(sensors[ret'.sensor]) # 0)
          => (~ret'.ok /\ ret'.err = "ValueError" /\ sensors' = sensors)]_vars

\* C2 witness: a malformed buffer was refused by a sensor whose log already
\* held samples of earlier calls
C2_Witness ==
    /\ IsHandlerCall(ret)
    /\ ~ret.ok
    /\ Len(ret.data) % AxesOf(sensors[ret.sensor]) # 0
    /\ Len(sensors[ret.sensor].data) > 0

\* C3: the ids of the sensors constructed one after the other (directly or
\* by from_path, failed attempts in between) are strictly increasing in
\* construction order, hence distinct, and the first one is 0.
C3_IdsStrictlyIncreasing ==
    /\ \A i \in 1..(Len(issued) - 1) : issued[i] < issued[i + 1]
    /\ issued # <<>> => issued[1] = 0
    /\ Len(sensors) = Len(issued)
    /\ \A i \in DOMAIN sensors : sensors[i].id = issued[i]

\* C3 witness: from_path has just built a sensor after at least two others,
\* and an attempt has failed validation without spoiling the sequence
C3_Witness ==
    /\ ret.op = "from_path"
    /\ ret.ok
    /\ Len(issued) >= 3
    /\ Last(issued) = Len(issued) - 1

\* C4: with constructor calls interleaved on several threads every sensor
\* still has an id of its own, and the counter has lost no increment.
C4_ConcurrentIdsDistinct ==
    /\ \A i, j \in DOMAIN issued : i # j => issued[i] # issued[j]
    /\ id_counter = stores

\* the member an argument names: a typed member itself, or the member whose
\* value a raw str or int is; "" when there is none
KindNamed(arg) ==
    IF arg.py = "MovesenseSensorType" THEN arg.name
    ELSE IF arg.py = "str" /\ \E n \in SensorTypeNames : SensorTypeOf(n).value = arg.s
         THEN CHOOSE n \in SensorTypeNames : SensorTypeOf(n).value = arg.s
    ELSE ""

RateNamed(arg) ==
    IF arg.py = "MovesenseSamplingRate" THEN arg.name
    ELSE IF arg.py = "int" /\ \E n \in SamplingRateNames : SamplingRateOf(n).value = arg.n
         THEN CHOOSE n \in SamplingRateNames : SamplingRateOf(n).value = arg.n
    ELSE ""

\* C5: a constructor call given a typed member for the kind and/or the rate
\* (the other argument a typed member or a valid raw value) succeeds and
\* stores exactly the members named.
C5_TypedMembersAccepted ==
    ( /\ ret.op = "init"
      /\ KindNamed(ret.sensor_type) # ""
      /\ RateNamed(ret.sampling_rate) # ""
      /\ (ret.sensor_type.py = "MovesenseSensorType"
            \/ ret.sampling_rate.py = "MovesenseSamplingRate") )
    => /\ ret.ok
       /\ Last(sensors).sensor_type = KindNamed(ret.sensor_type)
       /\ Last(sensors).sampling_rate = RateNamed(ret.sampling_rate)

\* C6: from_path of a sensor's path, as its text alone or with the two
\* prefix characters in front, builds a sensor of the same kind and rate,
\* whatever the id in the prefix.
C6_PathRoundTrip ==
    (ret.op = "from_path" /\ ret.form \in {"text", "prefixed"}) =>
        /\ ret.ok
        /\ Last(sensors).sensor_type = sensors[ret.src].sensor_type
        /\ Last(sensors).sampling_rate = sensors[ret.src].sampling_rate

\* C7: a constructor call that takes an id above 255 from the counter fails;
\* every sensor has an id in 0..255 and a path that starts with the bytes
\* 0x01 and that id.
C7_IdFitsOneByte ==
    /\ (IsConstructorCall(ret) /\ id_counter > 256) => ~ret.ok
    /\ \A i \in DOMAIN sensors :
          /\ sensors[i].id \in 0..255
          /\ sensors[i].path[1] = 1
          /\ sensors[i].path[2] = sensors[i].id
          /\ TextOfPath(sensors[i].path)
                = PathText(sensors[i].sensor_type, sensors[i].sampling_rate)

\* C7 witness: the call that took id 256 has failed, the 256 sensors with
\* the ids 0..255 exist
C7_Witness ==
    /\ id_counter = 257
    /\ IsConstructorCall(ret)
    /\ ~ret.ok
    /\ ret.err = "ValueError"
    /\ Len(sensors) = 256
    /\ Last(sensors).id = 255

\* the rule of C8 for a tag: the member whose value equals the tag; else the
\* first member, in definition order, whose value is a prefix of the tag;
\* else IMU9 for the tag "IMU"; else a failure
ExactFirst(tag) ==
    LET exact == {i \in DOMAIN SensorTypeMembers : SensorTypeMembers[i].value = tag}
        prefix == {i \in DOMAIN SensorTypeMembers :
                      StartsWith(tag, SensorTypeMembers[i].value)} IN
    IF exact # {} THEN Ok(SensorTypeMembers[CHOOSE i \in exact : \A j \in exact : i <= j].name)
    ELSE IF prefix # {}
         THEN Ok(SensorTypeMembers[CHOOSE i \in prefix : \A j \in prefix : i <= j].name)
    ELSE IF tag = IMU THEN Ok("IMU9")
    ELSE Raise("ValueError")

\* C8: a constructor call given a tag str (and an int of the rate catalog) ends
\* as the exact-first rule says: with the kind of the rule, or with
\* ValueError and no sensor when the rule fails; a member's own value gives
\* that member.
C8_LookupIsExactFirst ==
    ( /\ ret.op = "init"
      /\ ret.sensor_type.py = "str"
      /\ ret.sampling_rate.py = "int"
      /\ RateNamed(ret.sampling_rate) # "" ) =>
        LET rule == ExactFirst(ret.sensor_type.s) IN
        /\ ret.ok = rule.ok
        /\ rule.ok => Last(sensors).sensor_type = rule.v
        /\ ~rule.ok => (ret.err = rule.err /\ sensors = <<>>)
        /\ \A n \in SensorTypeNames :
              SensorTypeOf(n).value = ret.sensor_type.s => (ret.ok /\ Last(sensors).sensor_type = n)

\* C8 witness: a tag that only the prefix rule resolves ("IMU6" followed by
\* one more character) gave IMU6
C8_Witness ==
    /\ ret.op = "init"
    /\ ret.sensor_type.py = "str"
    /\ Len(ret.sensor_type.s) = 5
    /\ ret.ok
    /\ Last(sensors).sensor_type = "IMU6"

\* the buffers of sensor i that added rows arrived far enough apart: each
\* one at least (its row count) sampling periods after the one before
Spaced(i) ==
    LET T == Frac(1, SamplingRateOf(sensors[i].sampling_rate).value) IN
    \A k \in 2..Len(packets[i]) :
        FLeq(FAdd(ClockReading(packets[i][k - 1].arrival),
                  FMul(FInt(packets[i][k].rows), T)),
             ClockReading(packets[i][k].arrival))

C10_HandlerOnlyAppends ==
    [][IsHandlerCall(ret') =>
          LET i == ret'.sensor
              old == sensors[i].data
              new == sensors'[i].data
              axes == AxesOf(sensors[i])
              n == IF ret'.ok THEN Len(ret'.data) \div axes ELSE 0 IN
          /\ DOMAIN sensors' = DOMAIN sensors
          /\ \A j \in DOMAIN sensors : j # i => sensors'[j] = sensors[j]
          /\ [sensors'[i] EXCEPT !.data = old] = sensors[i]
          /\ Len(new) = Len(old) + n
          /\ SubSeq(new, 1, Len(old)) = old
          /\ \A k \in 1..n :
                new[Len(old) + k].sensor_data
                    = SubSeq(ret'.data, (k - 1) * axes + 1, k * axes)
          /\ id_counter' = id_counter
          /\ issued' = issued]_vars

\* C10 witness: handler calls for two sensors were interleaved: both logs
\* hold samples, the last call added a row behind an older one
C10_Witness ==
    /\ IsHandlerCall(ret)
    /\ ret.ok
    /\ Len(sensors) = 2
    /\ \A j \in DOMAIN sensors : sensors[j].data # <<>>
    /\ Len(sensors[ret.sensor].data) = 2
    /\ Len(ret.data) = 1

=============================================================================
